---- MODULE Spec2Model ----
(***************************************************************************)
(* The connection loops of examples/async_server.rs and                    *)
(* examples/sync_server.rs of esp-mbedtls: accept, Session::new,           *)
(* tls.connect(), the request read loop, the fixed response, the teardown. *)
(* One behaviour runs one of the two servers (variable variant).          *)
(* Everything outside the two main functions (the socket, the TLS session, *)
(* the peer, the clock) is the environment: each call into it returns one  *)
(* of the results its type allows.                                         *)
(***************************************************************************)
EXTENDS Integers, Sequences, FiniteSets, TLC

\* ---------------------------------------------------------------- bounds
\* Capacity of the receive buffer `[0u8; 1024]`, scaled down.
Capacity == 4
\* Most bytes a peer sends on one connection (one more than fits).
MaxStream == Capacity + 1
\* Most session reads attempted on one connection.
MaxReads == 2
\* Most connections served in one behaviour.
MaxConns == 2
\* Last clock value (the clock unit is 10 s).
MaxClock == 3

\* ------------------------------------------------------- program constants
\* `current_millis() + 20 * 1000`, in clock units of 10 s.
Deadline == 2
\* The handshake error code of a rejected self-signed certificate.
SelfSignedCode == -30592

CR == 13
LF == 10
\* "\r\n\r\n"
Terminator == <<CR, LF, CR, LF>>
\* The bytes a peer sends in Spec: CR and LF, the only bytes the terminator
\* search tells apart; a CR or LF out of place stands for any other byte.
PeerBytes == {CR, LF}
\* `[0u8; 1024]`
ZeroBuffer == [i \in 1..Capacity |-> 0]

VARIABLES
    variant,        \* "async" or "sync": which of the two servers runs
    pc,             \* position of main in its connection loop
    certPemValid,   \* certificate.pem is well-formed PEM
    keyPemValid,    \* private_key.pem is well-formed PEM
    sock,           \* state of the one TCP socket
    listened,       \* history: listen or accept on port 443 was called
    parsed,         \* history: the PEM texts were parsed, Session::new called
    sessions,       \* number of live Session objects
    rsaBorrows,     \* number of live `&mut peripherals.RSA` borrows
    buffer,         \* `buffer`
    pos,            \* `pos`
    sliceEnd,       \* `pos + len` of the latest `&buffer[..(pos + len)]`
    time_out,       \* `time_out` (sync)
    now,            \* current_millis(), in clock units
    wait_end,       \* `wait_end` (sync)
    received,       \* history: the bytes the session read on this connection
    outcome,        \* history: how the read loop of this connection ended
    reported,       \* history: `pos + len` when the terminator was detected
    hs,             \* history: result of tls.connect() on this connection
    trace,          \* history: the controller's calls on this connection
    conns,          \* number of connections taken so far
    ev,             \* the peer events both servers are run on (SpecEq)
    asyncActs,      \* what the async server does on ev (SpecEq)
    syncActs        \* what the sync server does on ev (SpecEq)

vars == <<variant, pc, certPemValid, keyPemValid, sock, listened, parsed, sessions,
          rsaBorrows, buffer, pos, sliceEnd, time_out, now, wait_end,
          received, outcome, reported, hs, trace, conns, ev, asyncActs,
          syncActs>>

\* ------------------------------------------------------------- helpers
Min(a, b) == IF a < b THEN a ELSE b

\* All sequences over S of length 1..n.
SeqsUpTo(S, n) == UNION {[1..k -> S] : k \in 1..n}

\* `to_print.contains("\r\n\r\n")`
Contains(s) ==
    \E i \in 1..(Len(s) - 3) : SubSeq(s, i, i + 3) = Terminator

\* Offset of the end of the first terminator in s (0 when there is none).
TerminatorEnd(s) ==
    IF Contains(s)
    THEN (CHOOSE i \in 1..(Len(s) - 3) :
              /\ SubSeq(s, i, i + 3) = Terminator
              /\ \A j \in 1..(i - 1) : SubSeq(s, j, j + 3) # Terminator) + 3
    ELSE 0

\* A read of `data` into the slice of `buf` that starts at offset `off`.
StoreAt(buf, off, data) ==
    [i \in 1..Capacity |->
        IF i > off /\ i <= off + Len(data) THEN data[i - off] ELSE buf[i]]

\* `&buffer[..n]`
Prefix(buf, n) == SubSeq(buf, 1, n)

\* Number of occurrences of event e in the trace t.
RECURSIVE Count(_, _)
Count(t, e) ==
    IF t = <<>> THEN 0
    ELSE (IF Head(t) = e THEN 1 ELSE 0) + Count(Tail(t), e)

\* Event e occurs in the trace t.
Has(t, e) == \E i \in 1..Len(t) : t[i] = e

\* Index of the first occurrence of e in t (0 when there is none).
IndexOf(t, e) ==
    IF Has(t, e)
    THEN CHOOSE i \in 1..Len(t) : t[i] = e /\ \A j \in 1..(i - 1) : t[j] # e
    ELSE 0

\* `X509::pem(..).ok()`: Some (TRUE) exactly when the PEM text parses.
X509Pem(valid) == valid

\* Session::new: Ok exactly when the certificate and the key were parsed.
SessionNewOk(certificate, private_key) == certificate /\ private_key

\* Results of tls.connect(): Ok(session) or Err(TlsError::MbedTlsError(code)).
HsOk == [ok |-> TRUE, code |-> 0]
HsErr(c) == [ok |-> FALSE, code |-> c]
\* No handshake yet on this connection.
HsNone == [ok |-> FALSE, code |-> 0]
\* The results tls.connect() can return; the last one stands for every
\* error that is not MbedTlsError(-30592).
ConnectResults == {HsOk, HsErr(SelfSignedCode), HsErr(SelfSignedCode - 128)}

\* One result of a session read: Ok(len) with its bytes, Err, or "Expired":
\* the peer stays silent until the deadline (async: the read returns the
\* socket timeout's Err; sync: the read returns Ok(0) and the clock is past
\* wait_end when it is checked).
ReadOk(d) == [kind |-> "Ok", data |-> d]
ReadErr == [kind |-> "Err", data |-> <<>>]
ReadExpired == [kind |-> "Expired", data |-> <<>>]

\* No peer events (the servers of Spec draw theirs step by step).
NoScript == [hs |-> HsNone, reads |-> <<>>, write |-> "Ok"]

Init ==
    /\ variant \in {"async", "sync"}
    /\ pc = IF variant = "async" THEN "accept" ELSE "listen"
    /\ certPemValid \in BOOLEAN
    /\ keyPemValid \in BOOLEAN
    /\ sock = "closed"
    /\ listened = FALSE
    /\ parsed = FALSE
    /\ sessions = 0
    /\ rsaBorrows = 0
    /\ buffer = ZeroBuffer
    /\ pos = 0
    /\ sliceEnd = 0
    /\ time_out = FALSE
    /\ now = 0
    /\ wait_end = 0
    /\ received = <<>>
    /\ outcome = "none"
    /\ reported = 0
    /\ hs = HsNone
    /\ trace = <<>>
    /\ conns = 0
    /\ ev = NoScript
    /\ asyncActs = <<>>
    /\ syncActs = <<>>

\* ------------------------------------------------ shared pieces of main
\* ConnectArm with the rejected handshake falling into the Ok arm.
ConnectArmReadOnReject(h) ==
    CASE h.ok -> "read"
      [] h = HsErr(SelfSignedCode) -> "read"
      [] OTHER -> "panicked"

\* ConnectArm without the arm for MbedTlsError(-30592).
ConnectArmNoSelfSignedArm(h) == IF h.ok THEN "read" ELSE "panicked"

\* The arms of `match tls.connect()`: where main goes on result h.
ConnectArm(h) ==
    CASE h.ok -> "read"
      [] h = HsErr(SelfSignedCode) -> "close"
      [] OTHER -> "panicked"

\* FreshConnection with the buffer and the cursor declared outside the
\* loop: they keep what the previous connection left.
FreshConnectionStaleBuffer ==
    /\ UNCHANGED <<buffer, pos>>
    /\ sliceEnd' = 0
    /\ received' = <<>>
    /\ outcome' = "none"
    /\ reported' = 0
    /\ hs' = HsNone

\* `let mut buffer = [0u8; 1024]; let mut pos = 0;` and the history of a
\* connection that starts.
FreshConnection ==
    /\ buffer' = ZeroBuffer
    /\ pos' = 0
    /\ sliceEnd' = 0
    /\ received' = <<>>
    /\ outcome' = "none"
    /\ reported' = 0
    /\ hs' = HsNone

\* SessionNew with the failure of Session::new ignored instead of unwrapped.
SessionNewNoUnwrap ==
    /\ parsed' = TRUE
    /\ sessions' = sessions + 1
    /\ rsaBorrows' = rsaBorrows + 1
    /\ trace' = Append(trace, "new_session")
    /\ pc' = "connect"

\* `Session::new(..).unwrap().with_hardware_rsa(&mut peripherals.RSA)`:
\* the session exists and borrows the RSA peripheral, or unwrap panics.
SessionNew ==
    /\ parsed' = TRUE
    /\ IF SessionNewOk(X509Pem(certPemValid), X509Pem(keyPemValid))
       THEN /\ sessions' = sessions + 1
            /\ rsaBorrows' = rsaBorrows + 1
            /\ trace' = Append(trace, "new_session")
            /\ pc' = "connect"
       ELSE /\ UNCHANGED <<sessions, rsaBorrows>>
            /\ trace' = Append(trace, "panic")
            /\ pc' = "panicked"

\* DropSession with the session leaked (kept alive) instead.
DropSessionLeak == UNCHANGED <<sessions, rsaBorrows>>

\* The session (and its borrow of the RSA peripheral) is dropped.
DropSession ==
    /\ sessions' = sessions - 1
    /\ rsaBorrows' = rsaBorrows - 1

\* `match tls.connect()`: connect consumes the session; Ok hands it on as
\* the connected session, Err drops it. The last arm panics.
Connect(h) ==
    /\ hs' = h
    /\ pc' = ConnectArm(h)
    /\ IF h.ok
       THEN /\ UNCHANGED <<sessions, rsaBorrows>>
            /\ trace' = Append(trace, "connect")
       ELSE /\ DropSession
            /\ trace' = Append(trace, IF ConnectArm(h) = "panicked"
                                      THEN "panic" ELSE "connect")

\* History of one session read that returned Ok(len): the call, and a mark
\* when it returned no bytes.
ReadEvents(len) == IF len = 0 THEN <<"read", "zero">> ELSE <<"read">>

\* --------------------------------------------------------- async server
\* AsyncAccept without the `continue` of the Err arm: main falls through
\* to the session of a connection that does not exist.
AsyncAcceptNoContinue ==
    /\ variant = "async"
    /\ pc = "accept"
    /\ listened' = TRUE
    /\ \E r \in {"Ok", "Err"} :
          /\ conns < MaxConns
          /\ conns' = conns + 1
          /\ sock' = IF r = "Ok" THEN "connected" ELSE sock
          /\ FreshConnection
          /\ trace' = IF r = "Ok" THEN <<"accept">> ELSE <<"accept_err">>
          /\ pc' = "new_session"
    /\ UNCHANGED <<ev, asyncActs, syncActs>>
    /\ UNCHANGED <<variant, certPemValid, keyPemValid, parsed, sessions,
                   rsaBorrows, time_out, now, wait_end>>

\* `socket.accept(IpListenEndpoint { addr: None, port: 443 }).await` and
\* `if let Err(e) = r { ..; continue; }`, then the fresh buffer and cursor.
AsyncAccept ==
    /\ variant = "async"
    /\ pc = "accept"
    /\ listened' = TRUE
    /\ \E r \in {"Ok", "Err"} :
          IF r = "Ok"
          THEN /\ conns < MaxConns
               /\ conns' = conns + 1
               /\ sock' = "connected"
               /\ FreshConnection
               /\ trace' = <<"accept">>
               /\ pc' = "new_session"
          ELSE /\ trace' = IF Has(trace, "accept_err") THEN trace
                            ELSE Append(trace, "accept_err")
               /\ UNCHANGED <<conns, sock, buffer, pos, sliceEnd, received,
                              outcome, reported, hs, pc>>
    /\ UNCHANGED <<ev, asyncActs, syncActs>>
    /\ UNCHANGED <<variant, certPemValid, keyPemValid, parsed, sessions,
                   rsaBorrows, time_out, now, wait_end>>

AsyncSessionNew ==
    /\ variant = "async"
    /\ pc = "new_session"
    /\ SessionNew
    /\ UNCHANGED <<ev, asyncActs, syncActs>>
    /\ UNCHANGED <<variant, certPemValid, keyPemValid, sock, listened, buffer,
                   pos, sliceEnd, time_out, now, wait_end, received, outcome,
                   reported, hs, conns>>

AsyncConnect ==
    /\ variant = "async"
    /\ pc = "connect"
    /\ \E h \in ConnectResults : Connect(h)
    /\ UNCHANGED <<ev, asyncActs, syncActs>>
    /\ UNCHANGED <<variant, certPemValid, keyPemValid, sock, listened, parsed, buffer,
                   pos, sliceEnd, time_out, now, wait_end, received, outcome,
                   reported, conns>>

\* Where `connected_session.read(&mut buffer)` stores its bytes: the slice
\* handed to read is the whole buffer, so they land at offset 0.
AsyncReadOffset(p) == 0

\* One iteration of the read loop: `connected_session.read(&mut buffer)`
\* and the arm of its match. kind "Timeout" is the Err the 10 s socket
\* timeout produces, "Err" any other Err.
AsyncRead ==
    /\ variant = "async"
    /\ pc = "read"
    /\ Count(trace, "read") < MaxReads
    /\ \/ \* Ok(0)
          /\ trace' = trace \o ReadEvents(0)
          /\ outcome' = "EOF"
          /\ pc' = "write"
          /\ UNCHANGED <<buffer, pos, sliceEnd, received, reported>>
       \/ \* Ok(len), len > 0
          \E data \in SeqsUpTo(PeerBytes,
                               Min(Capacity, MaxStream - Len(received))) :
             LET len == Len(data)
                 buf == StoreAt(buffer, AsyncReadOffset(pos), data)
             IN  /\ trace' = trace \o ReadEvents(len)
                 /\ buffer' = buf
                 /\ received' = received \o data
                 /\ sliceEnd' = pos + len
                 /\ IF pos + len > Capacity
                    THEN \* `&buffer[..(pos + len)]` panics
                         /\ pc' = "panicked"
                         /\ UNCHANGED <<pos, outcome, reported>>
                    ELSE IF Contains(Prefix(buf, pos + len))
                    THEN /\ outcome' = "Complete"
                         /\ reported' = pos + len
                         /\ pc' = "write"
                         /\ UNCHANGED pos
                    ELSE /\ pos' = pos + len
                         /\ UNCHANGED <<pc, outcome, reported>>
       \/ \* Err(e)
          \E kind \in {"Timeout", "Err"} :
             /\ trace' = Append(trace, "read")
             /\ outcome' = IF kind = "Timeout" THEN "TimedOut" ELSE "ReadError"
             /\ pc' = "write"
             /\ UNCHANGED <<buffer, pos, sliceEnd, received, reported>>
    /\ UNCHANGED <<ev, asyncActs, syncActs>>
    /\ UNCHANGED <<variant, certPemValid, keyPemValid, sock, listened, parsed, sessions,
                   rsaBorrows, time_out, now, wait_end, hs, conns>>

\* `connected_session.write_all(..).await`, `if let Err(e) = r { println }`.
AsyncWrite ==
    /\ variant = "async"
    /\ pc = "write"
    /\ \E w \in {"Ok", "Err"} :
          trace' = Append(trace, IF w = "Ok" THEN "write" ELSE "write_err")
    /\ pc' = "drop"
    /\ UNCHANGED <<ev, asyncActs, syncActs>>
    /\ UNCHANGED <<variant, certPemValid, keyPemValid, sock, listened, parsed, sessions,
                   rsaBorrows, buffer, pos, sliceEnd, time_out, now, wait_end,
                   received, outcome, reported, hs, conns>>

\* `Timer::after(1000 ms).await; drop(connected_session);`
AsyncDrop ==
    /\ variant = "async"
    /\ pc = "drop"
    /\ DropSession
    /\ trace' = Append(trace, "drop")
    /\ pc' = "close"
    /\ UNCHANGED <<ev, asyncActs, syncActs>>
    /\ UNCHANGED <<variant, certPemValid, keyPemValid, sock, listened, parsed, buffer,
                   pos, sliceEnd, time_out, now, wait_end, received, outcome,
                   reported, hs, conns>>

\* AsyncClose going straight back to accept, without delay and abort.
AsyncCloseNoAbort ==
    /\ variant = "async"
    /\ pc = "close"
    /\ sock' = "closing"
    /\ trace' = Append(trace, "close")
    /\ pc' = "accept"
    /\ UNCHANGED <<ev, asyncActs, syncActs>>
    /\ UNCHANGED <<variant, certPemValid, keyPemValid, listened, parsed,
                   sessions, rsaBorrows, buffer, pos, sliceEnd, time_out, now,
                   wait_end, received, outcome, reported, hs, conns>>

\* `socket.close();`
AsyncClose ==
    /\ variant = "async"
    /\ pc = "close"
    /\ sock' = "closing"
    /\ trace' = Append(trace, "close")
    /\ pc' = "grace"
    /\ UNCHANGED <<ev, asyncActs, syncActs>>
    /\ UNCHANGED <<variant, certPemValid, keyPemValid, listened, parsed, sessions,
                   rsaBorrows, buffer, pos, sliceEnd, time_out, now, wait_end,
                   received, outcome, reported, hs, conns>>

\* `Timer::after(Duration::from_millis(1000)).await;`
AsyncGrace ==
    /\ variant = "async"
    /\ pc = "grace"
    /\ trace' = Append(trace, "delay")
    /\ pc' = "abort"
    /\ UNCHANGED <<ev, asyncActs, syncActs>>
    /\ UNCHANGED <<variant, certPemValid, keyPemValid, sock, listened, parsed, sessions,
                   rsaBorrows, buffer, pos, sliceEnd, time_out, now, wait_end,
                   received, outcome, reported, hs, conns>>

\* `socket.abort();` and back to the top of the loop.
AsyncAbort ==
    /\ variant = "async"
    /\ pc = "abort"
    /\ sock' = "closed"
    /\ trace' = Append(trace, "abort")
    /\ pc' = "accept"
    /\ UNCHANGED <<ev, asyncActs, syncActs>>
    /\ UNCHANGED <<variant, certPemValid, keyPemValid, listened, parsed, sessions,
                   rsaBorrows, buffer, pos, sliceEnd, time_out, now, wait_end,
                   received, outcome, reported, hs, conns>>

\* ---------------------------------------------------------- sync server
\* What `socket.work()` can make of the socket.
WorkResults(s) ==
    CASE s = "listen" -> IF conns < MaxConns THEN {"listen", "connected"}
                         ELSE {"listen"}
      [] s = "closing" -> {"closing", "closed"}
      [] OTHER -> {s}

\* `socket.listen(443).unwrap(); set_debug(0);` before the loop.
SyncListen ==
    /\ variant = "sync"
    /\ pc = "listen"
    /\ listened' = TRUE
    /\ \E r \in {"Ok", "Err"} :
          IF r = "Ok"
          THEN /\ sock' = "listen"
               /\ trace' = Append(trace, "listen")
               /\ pc' = "poll"
          ELSE /\ trace' = Append(trace, "panic")
               /\ pc' = "panicked"
               /\ UNCHANGED sock
    /\ UNCHANGED <<ev, asyncActs, syncActs>>
    /\ UNCHANGED <<variant, certPemValid, keyPemValid, parsed, sessions,
                   rsaBorrows, buffer, pos, sliceEnd, time_out, now, wait_end,
                   received, outcome, reported, hs, conns>>

\* One turn of the loop up to the session: `socket.work()`,
\* `if !socket.is_open() { socket.listen(443).unwrap(); }`,
\* `if socket.is_connected()` and the locals of a new connection.
SyncPoll ==
    /\ variant = "sync"
    /\ pc = "poll"
    /\ \E s \in WorkResults(sock), r \in {"Ok", "Err"} :
          IF s = "closed"
          THEN \* not open: listen again
               /\ IF r = "Ok"
                  THEN /\ sock' = "listen"
                       /\ trace' = Append(trace, "listen")
                       /\ pc' = "poll"
                  ELSE /\ sock' = s
                       /\ trace' = Append(trace, "panic")
                       /\ pc' = "panicked"
               /\ UNCHANGED <<conns, buffer, pos, sliceEnd, received, outcome,
                              reported, hs, time_out, wait_end>>
          ELSE IF s = "connected"
          THEN /\ r = "Ok"
               /\ sock' = s
               /\ conns' = conns + 1
               /\ time_out' = FALSE
               /\ wait_end' = now + Deadline
               /\ FreshConnection
               /\ trace' = <<"accept">>
               /\ pc' = "new_session"
          ELSE /\ r = "Ok"
               /\ sock' = s
               /\ UNCHANGED <<conns, buffer, pos, sliceEnd, received, outcome,
                              reported, hs, time_out, wait_end, trace, pc>>
    /\ UNCHANGED <<ev, asyncActs, syncActs>>
    /\ UNCHANGED <<variant, certPemValid, keyPemValid, listened, parsed,
                   sessions, rsaBorrows, now>>

SyncSessionNew ==
    /\ variant = "sync"
    /\ pc = "new_session"
    /\ SessionNew
    /\ UNCHANGED <<ev, asyncActs, syncActs>>
    /\ UNCHANGED <<variant, certPemValid, keyPemValid, sock, listened, buffer,
                   pos, sliceEnd, time_out, now, wait_end, received, outcome,
                   reported, hs, conns>>

SyncConnect ==
    /\ variant = "sync"
    /\ pc = "connect"
    /\ \E h \in ConnectResults : Connect(h)
    /\ UNCHANGED <<ev, asyncActs, syncActs>>
    /\ UNCHANGED <<variant, certPemValid, keyPemValid, sock, listened, parsed,
                   buffer, pos, sliceEnd, time_out, now, wait_end, received,
                   outcome, reported, conns>>

\* Where `connected_session.read(&mut buffer[pos..])` stores its bytes.
SyncReadOffset(p) == p

\* DeadlinePassed with the comparison lost: the deadline never passes.
DeadlineNeverPassed == FALSE

\* `current_millis() > wait_end`
DeadlinePassed == now > wait_end

\* SyncRead with a read of zero bytes taken as the peer's close (break).
SyncReadStopOnZero ==
    /\ variant = "sync"
    /\ pc = "read"
    /\ Count(trace, "read") < MaxReads
    /\ \/ \* Ok(len): at most as many bytes as `buffer[pos..]` holds
          \E data \in {<<>>} \cup SeqsUpTo(PeerBytes, Capacity - pos) :
             LET len == Len(data)
                 buf == StoreAt(buffer, SyncReadOffset(pos), data)
             IN  /\ trace' = trace \o ReadEvents(len)
                 /\ buffer' = buf
                 /\ received' = received \o data
                 /\ sliceEnd' = pos + len
                 /\ IF len = 0
                    THEN /\ outcome' = "EOF"
                         /\ pc' = "write"
                         /\ UNCHANGED <<pos, time_out, reported>>
                    ELSE IF Contains(Prefix(buf, pos + len))
                    THEN /\ outcome' = "Complete"
                         /\ reported' = pos + len
                         /\ pc' = "write"
                         /\ UNCHANGED <<pos, time_out>>
                    ELSE /\ pos' = pos + len
                         /\ UNCHANGED reported
                         /\ IF DeadlinePassed
                            THEN /\ time_out' = TRUE
                                 /\ outcome' = "TimedOut"
                                 /\ pc' = "write"
                            ELSE UNCHANGED <<time_out, outcome, pc>>
       \/ \* Err(_): the else branch breaks
          /\ trace' = Append(trace, "read")
          /\ outcome' = "ReadError"
          /\ pc' = "write"
          /\ UNCHANGED <<buffer, pos, sliceEnd, received, reported, time_out>>
    /\ UNCHANGED <<ev, asyncActs, syncActs>>
    /\ UNCHANGED <<variant, certPemValid, keyPemValid, sock, listened, parsed,
                   sessions, rsaBorrows, now, wait_end, hs, conns>>

\* One iteration of the read loop: the read into `buffer[pos..]`, the
\* terminator search, `pos += len`, and the deadline check.
SyncRead ==
    /\ variant = "sync"
    /\ pc = "read"
    /\ Count(trace, "read") < MaxReads
    /\ \/ \* Ok(len): at most as many bytes as `buffer[pos..]` holds
          \E data \in {<<>>} \cup SeqsUpTo(PeerBytes, Capacity - pos) :
             LET len == Len(data)
                 buf == StoreAt(buffer, SyncReadOffset(pos), data)
             IN  /\ trace' = trace \o ReadEvents(len)
                 /\ buffer' = buf
                 /\ received' = received \o data
                 /\ sliceEnd' = pos + len
                 /\ IF Contains(Prefix(buf, pos + len))
                    THEN /\ outcome' = "Complete"
                         /\ reported' = pos + len
                         /\ pc' = "write"
                         /\ UNCHANGED <<pos, time_out>>
                    ELSE /\ pos' = pos + len
                         /\ UNCHANGED reported
                         /\ IF DeadlinePassed
                            THEN /\ time_out' = TRUE
                                 /\ outcome' = "TimedOut"
                                 /\ pc' = "write"
                            ELSE UNCHANGED <<time_out, outcome, pc>>
       \/ \* Err(_): the else branch breaks
          /\ trace' = Append(trace, "read")
          /\ outcome' = "ReadError"
          /\ pc' = "write"
          /\ UNCHANGED <<buffer, pos, sliceEnd, received, reported, time_out>>
    /\ UNCHANGED <<ev, asyncActs, syncActs>>
    /\ UNCHANGED <<variant, certPemValid, keyPemValid, sock, listened, parsed,
                   sessions, rsaBorrows, now, wait_end, hs, conns>>

\* `if !time_out { connected_session.write_all(..).unwrap(); }`
SyncWrite ==
    /\ variant = "sync"
    /\ pc = "write"
    /\ IF ~time_out
       THEN \E w \in {"Ok", "Err"} :
               IF w = "Ok"
               THEN /\ trace' = Append(trace, "write")
                    /\ pc' = "drop"
               ELSE /\ trace' = Append(trace, "write_err") \o <<"panic">>
                    /\ pc' = "panicked"
       ELSE /\ pc' = "drop"
            /\ UNCHANGED trace
    /\ UNCHANGED <<ev, asyncActs, syncActs>>
    /\ UNCHANGED <<variant, certPemValid, keyPemValid, sock, listened, parsed,
                   sessions, rsaBorrows, buffer, pos, sliceEnd, time_out, now,
                   wait_end, received, outcome, reported, hs, conns>>

\* `drop(connected_session);`
SyncDrop ==
    /\ variant = "sync"
    /\ pc = "drop"
    /\ DropSession
    /\ trace' = Append(trace, "drop")
    /\ pc' = "close"
    /\ UNCHANGED <<ev, asyncActs, syncActs>>
    /\ UNCHANGED <<variant, certPemValid, keyPemValid, sock, listened, parsed,
                   buffer, pos, sliceEnd, time_out, now, wait_end, received,
                   outcome, reported, hs, conns>>

\* `socket.close();` and back to the top of the loop.
SyncClose ==
    /\ variant = "sync"
    /\ pc = "close"
    /\ sock' = "closing"
    /\ trace' = Append(trace, "close")
    /\ pc' = "poll"
    /\ UNCHANGED <<ev, asyncActs, syncActs>>
    /\ UNCHANGED <<variant, certPemValid, keyPemValid, listened, parsed,
                   sessions, rsaBorrows, buffer, pos, sliceEnd, time_out, now,
                   wait_end, received, outcome, reported, hs, conns>>

\* The clock current_millis() reads advances.
Tick ==
    /\ variant = "sync"
    /\ pc # "panicked"
    /\ now < MaxClock
    /\ now' = now + 1
    /\ UNCHANGED <<ev, asyncActs, syncActs>>
    /\ UNCHANGED <<variant, pc, certPemValid, keyPemValid, sock, listened,
                   parsed, sessions, rsaBorrows, buffer, pos, sliceEnd,
                   time_out, wait_end, received, outcome, reported, hs, trace,
                   conns>>

Next ==
    \/ AsyncAccept
    \/ AsyncSessionNew
    \/ AsyncConnect
    \/ AsyncRead
    \/ AsyncWrite
    \/ AsyncDrop
    \/ AsyncClose
    \/ AsyncGrace
    \/ AsyncAbort
    \/ SyncListen
    \/ SyncPoll
    \/ SyncSessionNew
    \/ SyncConnect
    \/ SyncRead
    \/ SyncWrite
    \/ SyncDrop
    \/ SyncClose
    \/ Tick

Spec == Init /\ [][Next]_vars

\* The sync loop runs on (each session read returns) and the clock advances.
SpecLive == Spec /\ WF_vars(SyncRead) /\ WF_vars(Tick)

\* ------------------------------------------- both servers on one script
\* The two connection loops as functions of the peer's events: the
\* sequence of the controller's calls on one connection, from Session::new
\* to the return to the top of the loop ("listening") or the panic.

\* The chunks of data a read of a script may return.
ScriptData ==
    {<<>>, <<CR>>, <<CR, LF>>, <<LF, CR, LF>>, <<CR, LF, CR, LF>>, <<120>>}

ScriptReads == {ReadOk(d) : d \in ScriptData} \cup {ReadErr, ReadExpired}

\* Total number of bytes the reads rs bring.
RECURSIVE DataLen(_)
DataLen(rs) ==
    IF rs = <<>> THEN 0 ELSE Len(Head(rs).data) + DataLen(Tail(rs))

\* The scripts: a handshake result, up to MaxReads read results that fit
\* the buffer (so that both servers can be given the same reads), and the
\* result of write_all.
Scripts ==
    {sc \in [hs : ConnectResults,
             reads : {<<>>} \cup SeqsUpTo(ScriptReads, MaxReads),
             write : {"Ok", "Err"}] : DataLen(sc.reads) <= Capacity}

\* The next read result; when the script is over the peer stays silent.
NextEvent(evs) == IF evs = <<>> THEN ReadExpired ELSE Head(evs)

\* async: close, the delay, abort, back to accept.
AsyncTeardown == <<"close", "delay", "abort", "listening">>

\* sync: close, back to the top of the loop.
SyncTeardown == <<"close", "listening">>

\* The async read loop from cursor p on the reads evs.
RECURSIVE AsyncLoop(_, _, _)
AsyncLoop(buf, p, evs) ==
    LET e == NextEvent(evs)
        b == StoreAt(buf, AsyncReadOffset(p), e.data)
        n == p + Len(e.data)
    IN  IF e.kind # "Ok" THEN [acts |-> <<"read">>, exit |-> "break"]
        ELSE IF Len(e.data) = 0 THEN [acts |-> <<"read">>, exit |-> "break"]
        ELSE IF n > Capacity
        THEN [acts |-> <<"read", "panic">>, exit |-> "panic"]
        ELSE IF Contains(Prefix(b, n))
        THEN [acts |-> <<"read">>, exit |-> "break"]
        ELSE LET r == AsyncLoop(b, n, Tail(evs))
             IN  [acts |-> <<"read">> \o r.acts, exit |-> r.exit]

\* The async connection after the read loop: write_all (an error is only
\* printed), the drop, the teardown.
AsyncAfterLoop(exit, w) ==
    IF exit = "panic" THEN <<>>
    ELSE <<"write", "drop">> \o AsyncTeardown

\* The async server on the script sc.
AsyncRun(sc) ==
    <<"new_session", "connect">> \o
    (CASE ConnectArm(sc.hs) = "panicked" -> <<"panic">>
       [] ConnectArm(sc.hs) = "close" -> AsyncTeardown
       [] OTHER ->
            LET r == AsyncLoop(ZeroBuffer, 0, sc.reads)
            IN  r.acts \o AsyncAfterLoop(r.exit, sc.write))

\* The sync read loop from cursor p on the reads evs.
RECURSIVE SyncLoop(_, _, _)
SyncLoop(buf, p, evs) ==
    LET e == NextEvent(evs)
        b == StoreAt(buf, SyncReadOffset(p), e.data)
        n == p + Len(e.data)
    IN  IF e.kind = "Err" THEN [acts |-> <<"read">>, exit |-> "break"]
        ELSE IF Contains(Prefix(b, n))
        THEN [acts |-> <<"read">>, exit |-> "break"]
        ELSE IF e.kind = "Expired"
        THEN [acts |-> <<"read">>, exit |-> "timeout"]
        ELSE LET r == SyncLoop(b, n, Tail(evs))
             IN  [acts |-> <<"read">> \o r.acts, exit |-> r.exit]

\* The sync connection after the read loop: write_all unless timed out
\* (unwrap panics on an error), the drop, the teardown.
SyncAfterLoop(exit, w) ==
    IF exit = "timeout" THEN <<"drop">> \o SyncTeardown
    ELSE IF w = "Ok" THEN <<"write", "drop">> \o SyncTeardown
    ELSE <<"write", "panic">>

\* The sync server on the script sc.
SyncRun(sc) ==
    <<"new_session", "connect">> \o
    (CASE ConnectArm(sc.hs) = "panicked" -> <<"panic">>
       [] ConnectArm(sc.hs) = "close" -> SyncTeardown
       [] OTHER ->
            LET r == SyncLoop(ZeroBuffer, 0, sc.reads)
            IN  r.acts \o SyncAfterLoop(r.exit, sc.write))

\* A script is chosen; nothing has run on it yet.
InitEq ==
    /\ variant = "async"
    /\ pc = "accept"
    /\ certPemValid = TRUE
    /\ keyPemValid = TRUE
    /\ sock = "connected"
    /\ listened = TRUE
    /\ parsed = FALSE
    /\ sessions = 0
    /\ rsaBorrows = 0
    /\ buffer = ZeroBuffer
    /\ pos = 0
    /\ sliceEnd = 0
    /\ time_out = FALSE
    /\ now = 0
    /\ wait_end = 0
    /\ received = <<>>
    /\ outcome = "none"
    /\ reported = 0
    /\ hs = HsNone
    /\ trace = <<>>
    /\ conns = 0
    /\ ev \in Scripts
    /\ asyncActs = <<>>
    /\ syncActs = <<>>

\* The async server serves the connection of the script.
RunAsync ==
    /\ asyncActs = <<>>
    /\ asyncActs' = AsyncRun(ev)
    /\ UNCHANGED <<variant, pc, certPemValid, keyPemValid, sock, listened,
                   parsed, sessions, rsaBorrows, buffer, pos, sliceEnd,
                   time_out, now, wait_end, received, outcome, reported, hs,
                   trace, conns, ev, syncActs>>

\* The sync server serves the connection of the script.
RunSync ==
    /\ syncActs = <<>>
    /\ syncActs' = SyncRun(ev)
    /\ UNCHANGED <<variant, pc, certPemValid, keyPemValid, sock, listened,
                   parsed, sessions, rsaBorrows, buffer, pos, sliceEnd,
                   time_out, now, wait_end, received, outcome, reported, hs,
                   trace, conns, ev, asyncActs>>

NextEq ==
    \/ RunAsync
    \/ RunSync

SpecEq == InitEq /\ [][NextEq]_vars

TypeOK ==
    /\ variant \in {"async", "sync"}
    /\ pc \in {"accept", "listen", "poll", "new_session", "connect", "read",
               "write", "drop", "close", "grace", "abort", "panicked"}
    /\ sock \in {"closed", "listen", "connected", "closing"}
    /\ pos \in 0..MaxStream
    /\ now \in 0..MaxClock
    /\ Len(received) <= MaxStream
    /\ conns \in 0..MaxConns

\* ================================================================ claims
\* The connection is over: main is back at the top of its loop.
Listening == pc \in {"accept", "poll"}

\* write_all was called on this connection (whatever it returned).
Writes == Count(trace, "write") + Count(trace, "write_err")

\* tls.connect() failed with a code other than the self-signed rejection.
OtherHandshakeFailure ==
    /\ hs # HsNone
    /\ ~hs.ok
    /\ hs # HsErr(SelfSignedCode)

\* In the trace t, close is directly followed by the delay and the abort.
TeardownInOrder(t) ==
    LET i == IndexOf(t, "close")
    IN  /\ i > 0
        /\ Len(t) >= i + 2
        /\ t[i + 1] = "delay"
        /\ t[i + 2] = "abort"

\* C1: after a handshake that failed with MbedTlsError(-30592) the process
\* goes on: no read and no write on that connection, the session is gone,
\* main goes to close the socket and from there back to the top of its loop
\* (a panic can only come later, from listen's unwrap after the close).
C1_SelfSignedRejectionIsNotFatal ==
    hs = HsErr(SelfSignedCode) =>
        /\ ~Has(trace, "read")
        /\ Writes = 0
        /\ sessions = 0
        /\ pc \in {"close", "grace", "abort", "accept", "poll", "panicked"}
        /\ pc # "close" => Has(trace, "close")

C1_Witness ==
    /\ hs = HsErr(SelfSignedCode)
    /\ Listening
    /\ Has(trace, "close")

\* C2: a handshake failure with any other code never crashes the process:
\* main closes the socket and goes on with its loop.
C2_OtherHandshakeFailureIsNotFatal ==
    OtherHandshakeFailure =>
        /\ pc \in {"close", "grace", "abort", "accept", "poll"}
        /\ pc # "close" => Has(trace, "close")

\* C3: when the read loop ended as timed out, the response is never written
\* on that connection.
C3_NoResponseAfterTimeout ==
    outcome = "TimedOut" => Writes = 0

\* C4: once the bytes received contain the terminator, ending at an offset
\* within the buffer capacity, the read loop has ended as Complete and the
\* length it reports is the offset of the end of the terminator.
C4_TerminatorDetected ==
    (Contains(received) /\ TerminatorEnd(received) <= Capacity) =>
        /\ outcome = "Complete"
        /\ reported = TerminatorEnd(received)

C6_CursorWithinCapacity ==
    /\ pos <= Capacity
    /\ sliceEnd <= Capacity

\* C7: after a failed write_all main still goes on to close the socket; the
\* process does not stop at the write.
C7_CloseAfterWriteError ==
    Has(trace, "write_err") =>
        /\ pc \in {"drop", "close", "grace", "abort", "accept", "poll"}
        /\ pc \notin {"drop", "close"} => Has(trace, "close")

\* C8 (as claimed): in both servers a connection that was closed is back at
\* the top of the loop only after close, the delay and abort, in this order.
C8_CloseDelayAbort ==
    (Listening /\ Has(trace, "close")) => TeardownInOrder(trace)

\* C8 (amended): in the async server close is followed by the delay, then
\* by abort, and only then main is back at accept; in the sync server main
\* is back at the top of its loop right after close, with no delay and no
\* abort.
C8_TeardownPerServer ==
    /\ variant = "async" =>
           /\ pc = "grace" => trace[Len(trace)] = "close"
           /\ pc = "abort" => /\ trace[Len(trace)] = "delay"
                              /\ trace[Len(trace) - 1] = "close"
           /\ (pc = "accept" /\ conns > 0) => TeardownInOrder(trace)
           /\ Has(trace, "abort") => TeardownInOrder(trace)
    /\ variant = "sync" =>
           /\ ~Has(trace, "delay")
           /\ ~Has(trace, "abort")
           /\ (pc = "poll" /\ conns > 0) => Has(trace, "close")

C8_Witness ==
    /\ variant = "async"
    /\ pc = "accept"
    /\ conns = 1
    /\ Has(trace, "abort")

\* C9: at most one session exists and at most one borrow of the RSA
\* peripheral; no session exists while main waits for or takes the next
\* connection.
C9_SerialSessions ==
    /\ sessions <= 1
    /\ rsaBorrows <= 1
    /\ pc \in {"accept", "listen", "poll", "new_session"} =>
           (sessions = 0 /\ rsaBorrows = 0)

C9_Witness ==
    /\ conns = 2
    /\ sessions = 1
    /\ rsaBorrows = 1
    /\ pc = "read"

\* C10: when the handshake succeeded and the first read brought the whole
\* request, write_all is called exactly once and the socket is closed
\* afterwards.
C10_OneResponseThenClose ==
    (hs.ok /\ outcome = "Complete" /\ Count(trace, "read") = 1) =>
        /\ pc \notin {"read", "write"} => Writes = 1
        /\ pc \notin {"write", "drop", "close"} => Has(trace, "close")

\* C11: after every read the inspected slice buffer[..pos+len] is the
\* concatenation, in order, of all the bytes received on this connection.
C11_SliceIsEverythingReceived ==
    (Has(trace, "read") /\ sliceEnd <= Capacity) =>
        Prefix(buffer, sliceEnd) = received

\* C12: the response is written only when the read loop ended as Complete
\* (a peer close, Complete with empty content, included); after a read
\* error the socket is closed without a response.
C12_ResponseOnlyWhenComplete ==
    /\ Writes > 0 => outcome \in {"Complete", "EOF"}
    /\ outcome = "ReadError" => Writes = 0
\* In the trace t a read that returned no bytes is followed by another read.
ZeroThenRead(t) ==
    \E i, j \in 1..Len(t) : i < j /\ t[i] = "zero" /\ t[j] = "read"

\* C13 (as claimed): in both servers a read of zero bytes stops the read
\* loop: no further read is attempted on the connection.
C13_ZeroReadStopsLoop ==
    Has(trace, "zero") => (pc # "read" /\ ~ZeroThenRead(trace))

\* C13 (amended): in the async server a read of zero bytes stops the read
\* loop (peer close), no further read follows; in the sync server it does
\* not: the loop goes on reading unless the deadline has passed, and then
\* it ends as timed out.
C13_ZeroReadPerServer ==
    /\ variant = "async" =>
           (Has(trace, "zero") =>
               /\ outcome = "EOF"
               /\ pc # "read"
               /\ ~ZeroThenRead(trace))
    /\ (variant = "sync" /\ trace # <<>> /\ trace[Len(trace)] = "zero") =>
           \/ pc = "read" /\ outcome = "none" /\ ~time_out
           \/ pc \in {"write", "drop"} /\ outcome = "TimedOut" /\ time_out

C13_Witness ==
    /\ variant = "sync"
    /\ ZeroThenRead(trace)

\* This step is a session read (sync: one iteration of the read loop).
ReadStep == pc = "read" /\ Count(trace', "read") = Count(trace, "read") + 1

\* This step calls write_all.
WriteStep == pc = "write" /\ Writes' = Writes + 1

\* C14 (as claimed): in the sync server, once the clock has passed wait_end
\* no session read is attempted and no response is written.
C14_NothingAfterDeadline ==
    [][(variant = "sync" /\ now > wait_end) => (~ReadStep /\ ~WriteStep)]_vars

\* C14 (amended): in the sync server a read attempted after wait_end is the
\* last one of the connection (the deadline is only checked after a read
\* that returned Ok without the terminator), and the response is skipped
\* exactly when the loop ended on that check: it is still written when the
\* last read found the terminator or failed.
C14_AtMostOneReadAfterDeadline ==
    /\ [][(variant = "sync" /\ now > wait_end /\ ReadStep) =>
             /\ pc' = "write"
             /\ outcome' \in {"Complete", "ReadError", "TimedOut"}
             /\ time_out' = (outcome' = "TimedOut")]_vars
    /\ [][(variant = "sync" /\ pc = "write" /\ pc' # "write") =>
             (WriteStep = ~time_out)]_vars

C14_Witness ==
    /\ variant = "sync"
    /\ outcome = "TimedOut"
    /\ Count(trace, "read") = 1
    /\ now > wait_end
    /\ pc = "drop"

\* C15: on the same peer events (handshake result, read results, deadline
\* expiry, write result) the async and the sync server make the same
\* sequence of calls.
C15_SameActionsOnSameEvents ==
    (asyncActs # <<>> /\ syncActs # <<>>) => asyncActs = syncActs

\* C16: in the async server a failed accept leaves main at accept: nothing
\* follows it on the connection loop (no session, handshake, read or write)
\* but another accept.
C16_AcceptErrorStaysListening ==
    (variant = "async" /\ Has(trace, "accept_err")) =>
        /\ pc = "accept"
        /\ trace[Len(trace)] = "accept_err"
        /\ sessions = 0
        /\ rsaBorrows = 0
        /\ conns = 0 => (~parsed /\ hs = HsNone /\ trace = <<"accept_err">>)

C16_Witness ==
    /\ variant = "async"
    /\ pc = "accept"
    /\ conns = 1
    /\ Has(trace, "abort")
    /\ trace[Len(trace)] = "accept_err"

\* C17: a connection starts with pos = 0 and an all-zero buffer, and every
\* byte the terminator search inspects is a zero of that fresh buffer or a
\* byte received on this connection.
C17_FreshBufferPerConnection ==
    /\ (pc \in {"new_session", "connect", "read"} /\ ~Has(trace, "read")) =>
           (pos = 0 /\ buffer = ZeroBuffer)
    /\ conns > 0 =>
           \A i \in 1..Capacity :
               \/ buffer[i] = 0
               \/ \E j \in 1..Len(received) : received[j] = buffer[i]

C17_Witness ==
    /\ conns = 2
    /\ pc = "read"
    /\ pos = 0
    /\ buffer = ZeroBuffer
    /\ received = <<>>

\* C18: on every connection, reads and the write happen only after
\* tls.connect() returned Ok, write_all is called at most once, and no read
\* follows the write.
C18_DataOnlyOnEstablishedSession ==
    /\ (Has(trace, "read") \/ Writes > 0) => hs.ok
    /\ Writes <= 1
    /\ \A i, j \in 1..Len(trace) :
           (i < j /\ trace[i] \in {"write", "write_err"}) => trace[j] # "read"

C18_Witness ==
    /\ conns = 2
    /\ hs.ok
    /\ Count(trace, "read") = 2
    /\ Writes = 1
    /\ Listening

\* C19: in the sync server, given that session reads return, a read loop
\* that is past wait_end ends: the next iteration is its last, whatever the
\* read returns (zero bytes and a full buffer included). Stated for loops
\* that have not used up the MaxReads reads of the model.
C19_ReadLoopEndsAfterDeadline ==
    (variant = "sync" /\ pc = "read" /\ now > wait_end
        /\ Count(trace, "read") < MaxReads) ~> (pc # "read")

C19_Witness ==
    /\ variant = "sync"
    /\ outcome = "TimedOut"
    /\ pos = Capacity
    /\ trace[Len(trace)] = "zero"
    /\ pc = "write"

====
